---------------------------- MODULE Spec2Model ----------------------------
(***************************************************************************)
(* Model of api/tts.py: an HTTP handler that turns a JSON `text` into      *)
(* speech by draining an edge_tts stream into a buffer (generate_audio),   *)
(* and answers with the buffered audio or a JSON error (handler.do_POST,   *)
(* handler.do_OPTIONS).                                                    *)
(*                                                                         *)
(* Every request runs in its own handler instance.  The environment picks  *)
(* the request, the events of the edge_tts stream (chunk, end, error) and  *)
(* whether a write to the client socket raises.                            *)
(*                                                                         *)
(* Library behaviour the handler rests on (http.server):                   *)
(*   send_response / send_header append to a header buffer;                *)
(*   end_headers appends the blank line and writes the buffer to wfile,    *)
(*   clearing it only when the write succeeded;                            *)
(*   the Server and Date headers send_response adds on its own are left    *)
(*   out: only the headers api/tts.py sets are modelled.                   *)
(* A write that raises is modelled as having written nothing.              *)
(***************************************************************************)
EXTENDS Naturals, Sequences, FiniteSets, TLC

(* ------------------------------ bounds --------------------------------- *)

\* chunks the environment delivers, over all streams together
MaxChunks == 3

\* the concurrent requests (handler instances)
Reqs == {1, 2}

(* ------------------------------ values --------------------------------- *)

VOICE == "en-GB-RyanNeural"

\* JSON values that may sit under the "text" key
JStr(s) == [t |-> "string", s |-> s]
JNull == [t |-> "null", s |-> ""]

\* parsed JSON documents: an object (its keys, and the value of "text"), or
\* a document that is not an object
JObject(keys, v) == [t |-> "object", keys |-> keys, text |-> v]
JArray == [t |-> "array", keys |-> {}, text |-> JNull]

Texts == {"Hello world", "Hi"}

\* the documents a body may hold; "invalid" is text that is no JSON at all
Docs ==
    {[valid |-> FALSE, value |-> JArray], [valid |-> TRUE, value |-> JArray],
     [valid |-> TRUE, value |-> JObject({}, JNull)],
     [valid |-> TRUE, value |-> JObject({"text"}, JStr(""))],
     [valid |-> TRUE, value |-> JObject({"text"}, JNull)]}
    \cup {[valid |-> TRUE, value |-> JObject({"text"}, JStr(s))] : s \in Texts}

\* a POST request as it arrives: the Content-Length header ("absent", "bad":
\* not a number, "ok"), whether reading the socket fails, whether the bytes
\* are UTF-8, and the document they spell
WellFormed(d) == [content_length |-> "ok", readable |-> TRUE, utf8 |-> TRUE, doc |-> d]
NoDoc == [valid |-> FALSE, value |-> JArray]
Requests ==
    {WellFormed(d) : d \in Docs}
    \cup {[content_length |-> "absent", readable |-> TRUE, utf8 |-> TRUE, doc |-> NoDoc],
          [content_length |-> "bad", readable |-> TRUE, utf8 |-> TRUE, doc |-> NoDoc],
          [content_length |-> "ok", readable |-> FALSE, utf8 |-> TRUE, doc |-> NoDoc],
          [content_length |-> "ok", readable |-> TRUE, utf8 |-> FALSE, doc |-> NoDoc]}

NoRequest == [content_length |-> "none", readable |-> TRUE, utf8 |-> TRUE, doc |-> NoDoc]

\* chunks of the edge_tts stream
AudioChunk(d) == [type |-> "audio", data |-> d]
MetaChunk == [type |-> "WordBoundary", data |-> <<7>>]
Chunks == {AudioChunk(<<1>>), AudioChunk(<<2, 3>>), MetaChunk}

\* stream events waiting for the coroutine
NoEvent == [ev |-> "none", chunk |-> MetaChunk, msg |-> ""]
ChunkEvent(c) == [ev |-> "chunk", chunk |-> c, msg |-> ""]
EndEvent == [ev |-> "end", chunk |-> MetaChunk, msg |-> ""]
ErrorEvent(m) == [ev |-> "error", chunk |-> MetaChunk, msg |-> m]

StreamErrors == {"No audio was received. Please verify that your parameters are correct."}

\* exceptions: where they were raised and what str(e) gives
Exc(origin, msg) == [origin |-> origin, msg |-> msg]
NoExc == Exc("none", "")
BrokenPipe == Exc("write", "[Errno 32] Broken pipe")


(* -------------------------- the response ------------------------------- *)

\* what travels to the client: the status line, header lines, the blank line
\* that ends the headers, and body writes (text for JSON, bytes for audio)
Status(code) == [k |-> "status", name |-> "", value |-> code, data |-> <<>>]
Header(n, v) == [k |-> "header", name |-> n, value |-> v, data |-> <<>>]
EndHeaders == [k |-> "end", name |-> "", value |-> "", data |-> <<>>]
TextBody(s) == [k |-> "body", name |-> "text", value |-> s, data |-> <<>>]
BytesBody(b) == [k |-> "body", name |-> "bytes", value |-> "", data |-> b]

Digits == <<"0", "1", "2", "3", "4", "5", "6", "7", "8", "9">>

\* str(n) of a natural number (line 45)
RECURSIVE Str(_)
Str(n) == IF n < 10 THEN Digits[n + 1] ELSE Str(n \div 10) \o Digits[(n % 10) + 1]

\* BaseHTTPRequestHandler.send_response, send_header, end_headers up to the
\* write: all three only append to the header buffer
send_response(buf, code) == Append(buf, Status(code))
send_header(buf, n, v) == Append(buf, Header(n, v))
end_headers(buf) == Append(buf, EndHeaders)

(* ----------------------- reading the request --------------------------- *)

Ok(v) == [exc |-> NoExc, value |-> v]
Raise(e) == [exc |-> e, value |-> JNull]

\* data.get('text', '') (line 32)
Get(obj) == IF "text" \in obj.keys THEN obj.text ELSE JStr("")

\* json.loads(body) (line 31); a body of zero bytes is no JSON document
json_loads(doc) ==
    IF doc.valid THEN Ok(doc.value)
    ELSE Raise(Exc("parse", "Expecting value: line 1 column 1 (char 0)"))

\* lines 28-32: Content-Length, rfile.read, decode, json.loads, data.get
text(req) ==
    IF req.content_length = "bad"
    THEN Raise(Exc("read", "invalid literal for int() with base 10: 'abc'"))
    ELSE IF ~req.readable
    THEN Raise(Exc("read", "[Errno 104] Connection reset by peer"))
    ELSE IF req.content_length = "absent"
    THEN json_loads(NoDoc)
    ELSE IF ~req.utf8
    THEN Raise(Exc("parse",
               "'utf-8' codec can't decode byte 0xff in position 0: invalid start byte"))
    ELSE LET data == json_loads(req.doc) IN
         IF data.exc # NoExc THEN data
         ELSE IF data.value.t # "object"
         THEN Raise(Exc("parse", "'list' object has no attribute 'get'"))
         ELSE Ok(Get(data.value))

\* a variant of NotText that tests `text is None`
NotText_onlyNone(v) == v.t = "null"

\* `not text` (line 34): Python truth of a string or None
NotText(v) == v.t = "null" \/ (v.t = "string" /\ v.s = "")

\* the literal body of line 37
NoTextProvided == "{\"error\": \"No text provided\"}"

\* a variant of error_msg that drops the exception's message
error_msg_fixed(e) == NoTextProvided

\* json.dumps({"error": str(e)}) (line 52); no message of the model holds a
\* character json.dumps would escape
error_msg(e) == "{\"error\": \"" \o e.msg \o "\"}"

(* --------------------------- generate_audio ---------------------------- *)

\* a variant of write_chunk without the test of the chunk's type
write_chunk_untyped(buf, chunk) == buf \o chunk.data

\* lines 15-16: an audio chunk's data goes to the end of the buffer
write_chunk(buf, chunk) == IF chunk.type = "audio" THEN buf \o chunk.data ELSE buf

\* a variant of exhausted that gives up on a silent stream
exhausted_or_timeout(e) == e.ev \in {"end", "none"}

\* line 14: the loop ends when the stream is exhausted, and only then
exhausted(e) == e.ev = "end"

\* a variant of buffer_of with one buffer for the whole module
buffer_shared(r) == 1

\* line 12: every call of generate_audio has a buffer of its own
buffer_of(r) == r

(* ------------------------------ state ---------------------------------- *)

VARIABLES
    method,          \* "none", "POST" or "OPTIONS"
    request,         \* the POST request as it arrived
    pc,              \* where the handler stands
    rfile_read,      \* whether the handler read the request body
    calls,           \* edge_tts streams opened for the request
    stream,          \* "none", "open", "exhausted", "failed"
    pending,         \* the stream event the coroutine has not yet taken
    consumed,        \* the chunks taken from the stream so far, in order
    audio_data,      \* the BytesIO buffer of generate_audio
    headers_buffer,  \* header lines not yet written
    wfile,           \* everything written to the client, in order
    exc,             \* the exception the except clause caught
    wfailed,         \* whether a write to the client raised
    nchunks          \* chunks delivered so far, over all streams

vars == <<method, request, pc, rfile_read, calls, stream, pending, consumed,
          audio_data, headers_buffer, wfile, exc, wfailed, nchunks>>

\* what belongs to request r
View(r) == <<method[r], request[r], pc[r], rfile_read[r], calls[r], stream[r],
             pending[r], consumed[r], audio_data[r], headers_buffer[r], wfile[r],
             exc[r], wfailed[r]>>

Init ==
    /\ method = [r \in Reqs |-> "none"]
    /\ request = [r \in Reqs |-> NoRequest]
    /\ pc = [r \in Reqs |-> "idle"]
    /\ rfile_read = [r \in Reqs |-> FALSE]
    /\ calls = [r \in Reqs |-> 0]
    /\ stream = [r \in Reqs |-> "none"]
    /\ pending = [r \in Reqs |-> NoEvent]
    /\ consumed = [r \in Reqs |-> <<>>]
    /\ audio_data = [r \in Reqs |-> <<>>]
    /\ headers_buffer = [r \in Reqs |-> <<>>]
    /\ wfile = [r \in Reqs |-> <<>>]
    /\ exc = [r \in Reqs |-> NoExc]
    /\ wfailed = [r \in Reqs |-> FALSE]
    /\ nchunks = 0

Done(r) == pc[r] \in {"returned", "raised"}


(* --------------------------- the environment --------------------------- *)

\* a request reaches a free handler
Arrive(r) ==
    /\ pc[r] = "idle"
    /\ \/ /\ \E req \in Requests : request' = [request EXCEPT ![r] = req]
          /\ method' = [method EXCEPT ![r] = "POST"]
          /\ pc' = [pc EXCEPT ![r] = "post"]
       \/ /\ method' = [method EXCEPT ![r] = "OPTIONS"]
          /\ pc' = [pc EXCEPT ![r] = "options"]
          /\ UNCHANGED request
    /\ UNCHANGED <<rfile_read, calls, stream, pending, consumed, audio_data,
                   headers_buffer, wfile, exc, wfailed, nchunks>>

\* the stream has its next chunk ready for the waiting coroutine
StreamYield(r) ==
    /\ pc[r] = "await" /\ pending[r] = NoEvent
    /\ nchunks < MaxChunks
    /\ \E c \in Chunks : pending' = [pending EXCEPT ![r] = ChunkEvent(c)]
    /\ nchunks' = nchunks + 1
    /\ UNCHANGED <<method, request, pc, rfile_read, calls, stream, consumed,
                   audio_data, headers_buffer, wfile, exc, wfailed>>

\* the stream ends
StreamEnd(r) ==
    /\ pc[r] = "await" /\ pending[r] = NoEvent
    /\ pending' = [pending EXCEPT ![r] = EndEvent]
    /\ UNCHANGED <<method, request, pc, rfile_read, calls, stream, consumed,
                   audio_data, headers_buffer, wfile, exc, wfailed, nchunks>>

\* the stream fails (network, service)
StreamError(r) ==
    /\ pc[r] = "await" /\ pending[r] = NoEvent
    /\ \E m \in StreamErrors : pending' = [pending EXCEPT ![r] = ErrorEvent(m)]
    /\ UNCHANGED <<method, request, pc, rfile_read, calls, stream, consumed,
                   audio_data, headers_buffer, wfile, exc, wfailed, nchunks>>

(* ------------------------------ writes --------------------------------- *)

\* wfile.write(tokens) inside the try block: on success go to `next`; a
\* write that raises leaves the header buffer as it was and enters the
\* except clause (line 49)
TryWrite(r, buf, tokens, next) ==
    \E ok \in BOOLEAN :
        IF ok
        THEN /\ wfile' = [wfile EXCEPT ![r] = @ \o tokens]
             /\ headers_buffer' = [headers_buffer EXCEPT ![r] = <<>>]
             /\ pc' = [pc EXCEPT ![r] = next]
             /\ UNCHANGED <<exc, wfailed>>
        ELSE /\ headers_buffer' = [headers_buffer EXCEPT ![r] = buf]
             /\ exc' = [exc EXCEPT ![r] = BrokenPipe]
             /\ wfailed' = [wfailed EXCEPT ![r] = TRUE]
             /\ pc' = [pc EXCEPT ![r] = "except_headers"]
             /\ UNCHANGED wfile

\* wfile.write(tokens) outside any try block: the exception leaves the handler
PlainWrite(r, buf, tokens, next) ==
    \E ok \in BOOLEAN :
        IF ok
        THEN /\ wfile' = [wfile EXCEPT ![r] = @ \o tokens]
             /\ headers_buffer' = [headers_buffer EXCEPT ![r] = <<>>]
             /\ pc' = [pc EXCEPT ![r] = next]
             /\ UNCHANGED wfailed
        ELSE /\ headers_buffer' = [headers_buffer EXCEPT ![r] = buf]
             /\ wfailed' = [wfailed EXCEPT ![r] = TRUE]
             /\ pc' = [pc EXCEPT ![r] = "raised"]
             /\ UNCHANGED wfile

(* ------------------------------ do_POST -------------------------------- *)

\* a variant of post_preamble without the CORS header
post_preamble_no_cors == send_response(<<>>, "200")

\* lines 23-24: the status line and the CORS header, buffered
post_preamble ==
    send_header(send_response(<<>>, "200"), "Access-Control-Allow-Origin", "*")

\* lines 23-34: buffer the preamble, read and parse the request, branch
do_POST(r) ==
    /\ pc[r] = "post"
    /\ headers_buffer' = [headers_buffer EXCEPT ![r] = post_preamble]
    /\ rfile_read' = [rfile_read EXCEPT ![r] = request[r].content_length # "bad"]
    /\ LET t == text(request[r]) IN
       IF t.exc # NoExc
       THEN /\ exc' = [exc EXCEPT ![r] = t.exc]
            /\ pc' = [pc EXCEPT ![r] = "except_headers"]
       ELSE /\ pc' = [pc EXCEPT ![r] = IF NotText(t.value) THEN "reject_headers"
                                       ELSE "synth"]
            /\ UNCHANGED exc
    /\ UNCHANGED <<method, request, calls, stream, pending, consumed, audio_data,
                   wfile, wfailed, nchunks>>

\* lines 35-36
reject_headers(r) ==
    /\ pc[r] = "reject_headers"
    /\ LET buf == end_headers(send_header(headers_buffer[r],
                                          "Content-Type", "application/json"))
       IN TryWrite(r, buf, buf, "reject_body")
    /\ UNCHANGED <<method, request, rfile_read, calls, stream, pending, consumed,
                   audio_data, nchunks>>

\* lines 37-38
reject_body(r) ==
    /\ pc[r] = "reject_body"
    /\ TryWrite(r, headers_buffer[r], <<TextBody(NoTextProvided)>>, "returned")
    /\ UNCHANGED <<method, request, rfile_read, calls, stream, pending, consumed,
                   audio_data, nchunks>>

\* lines 41, 11-14: asyncio.run(generate_audio(text)) opens the stream with
\* an empty buffer and waits for the first event
generate_audio(r) ==
    /\ pc[r] = "synth"
    /\ calls' = [calls EXCEPT ![r] = @ + 1]
    /\ stream' = [stream EXCEPT ![r] = "open"]
    /\ audio_data' = [audio_data EXCEPT ![buffer_of(r)] = <<>>]
    /\ pc' = [pc EXCEPT ![r] = "await"]
    /\ UNCHANGED <<method, request, rfile_read, pending, consumed, headers_buffer,
                   wfile, exc, wfailed, nchunks>>

\* a variant that forwards each chunk to the client as it arrives
consume_streaming(r) ==
    /\ pc[r] = "await" /\ pending[r].ev = "chunk"
    /\ audio_data' = [audio_data EXCEPT
                        ![buffer_of(r)] = write_chunk(@, pending[r].chunk)]
    /\ wfile' = [wfile EXCEPT ![r] = @ \o <<BytesBody(pending[r].chunk.data)>>]
    /\ consumed' = [consumed EXCEPT ![r] = Append(@, pending[r].chunk)]
    /\ pending' = [pending EXCEPT ![r] = NoEvent]
    /\ UNCHANGED <<method, request, pc, rfile_read, calls, stream, headers_buffer,
                   exc, wfailed, nchunks>>

\* lines 14-16: one turn of the loop
consume(r) ==
    /\ pc[r] = "await" /\ pending[r].ev = "chunk"
    /\ audio_data' = [audio_data EXCEPT
                        ![buffer_of(r)] = write_chunk(@, pending[r].chunk)]
    /\ consumed' = [consumed EXCEPT ![r] = Append(@, pending[r].chunk)]
    /\ pending' = [pending EXCEPT ![r] = NoEvent]
    /\ UNCHANGED <<method, request, pc, rfile_read, calls, stream, headers_buffer,
                   wfile, exc, wfailed, nchunks>>

\* lines 14, 18, 41: the loop is over, generate_audio returns the buffer
return_audio(r) ==
    /\ pc[r] = "await" /\ exhausted(pending[r])
    /\ stream' = [stream EXCEPT ![r] = "exhausted"]
    /\ pending' = [pending EXCEPT ![r] = NoEvent]
    /\ pc' = [pc EXCEPT ![r] = "audio_headers"]
    /\ UNCHANGED <<method, request, rfile_read, calls, consumed, audio_data,
                   headers_buffer, wfile, exc, wfailed, nchunks>>

\* lines 14, 41, 49: the stream raised; the exception reaches the except clause
raise_audio(r) ==
    /\ pc[r] = "await" /\ pending[r].ev = "error"
    /\ stream' = [stream EXCEPT ![r] = "failed"]
    /\ exc' = [exc EXCEPT ![r] = Exc("synth", pending[r].msg)]
    /\ pending' = [pending EXCEPT ![r] = NoEvent]
    /\ pc' = [pc EXCEPT ![r] = "except_headers"]
    /\ UNCHANGED <<method, request, rfile_read, calls, consumed, audio_data,
                   headers_buffer, wfile, wfailed, nchunks>>

\* lines 44-46
audio_headers(r) ==
    /\ pc[r] = "audio_headers"
    /\ LET audio == audio_data[buffer_of(r)]
           buf == end_headers(
                      send_header(
                          send_header(headers_buffer[r], "Content-Type", "audio/mpeg"),
                          "Content-Length", Str(Len(audio))))
       IN TryWrite(r, buf, buf, "audio_body")
    /\ UNCHANGED <<method, request, rfile_read, calls, stream, pending, consumed,
                   audio_data, nchunks>>

\* line 47
audio_body(r) ==
    /\ pc[r] = "audio_body"
    /\ TryWrite(r, headers_buffer[r], <<BytesBody(audio_data[buffer_of(r)])>>,
                "returned")
    /\ UNCHANGED <<method, request, rfile_read, calls, stream, pending, consumed,
                   audio_data, nchunks>>

\* lines 49-51
except_headers(r) ==
    /\ pc[r] = "except_headers"
    /\ LET buf == end_headers(send_header(headers_buffer[r],
                                          "Content-Type", "application/json"))
       IN PlainWrite(r, buf, buf, "except_body")
    /\ UNCHANGED <<method, request, rfile_read, calls, stream, pending, consumed,
                   audio_data, exc, nchunks>>

\* lines 52-53
except_body(r) ==
    /\ pc[r] = "except_body"
    /\ PlainWrite(r, headers_buffer[r], <<TextBody(error_msg(exc[r]))>>, "returned")
    /\ UNCHANGED <<method, request, rfile_read, calls, stream, pending, consumed,
                   audio_data, exc, nchunks>>

(* ----------------------------- do_OPTIONS ------------------------------ *)

\* a variant of options_headers without Access-Control-Allow-Methods
options_headers_no_methods ==
    send_header(
        send_header(send_response(<<>>, "200"), "Access-Control-Allow-Origin", "*"),
        "Access-Control-Allow-Headers", "Content-Type")

\* lines 56-59
options_headers ==
    send_header(
        send_header(
            send_header(send_response(<<>>, "200"), "Access-Control-Allow-Origin", "*"),
            "Access-Control-Allow-Methods", "POST, OPTIONS"),
        "Access-Control-Allow-Headers", "Content-Type")

\* lines 56-60
do_OPTIONS(r) ==
    /\ pc[r] = "options"
    /\ LET buf == end_headers(options_headers)
       IN PlainWrite(r, buf, buf, "returned")
    /\ UNCHANGED <<method, request, rfile_read, calls, stream, pending, consumed,
                   audio_data, exc, nchunks>>

(* -------------------------- specifications ----------------------------- *)

Handler(r) ==
    \/ do_POST(r)
    \/ reject_headers(r)
    \/ reject_body(r)
    \/ generate_audio(r)
    \/ consume(r)
    \/ return_audio(r)
    \/ raise_audio(r)
    \/ audio_headers(r)
    \/ audio_body(r)
    \/ except_headers(r)
    \/ except_body(r)
    \/ do_OPTIONS(r)

Environment(r) ==
    \/ Arrive(r)
    \/ StreamYield(r)
    \/ StreamEnd(r)
    \/ StreamError(r)

Next == \E r \in Reqs : Handler(r) \/ Environment(r)

Spec == Init /\ [][Next]_vars

\* one request on its own, its handler never starved: the thread that runs
\* do_POST keeps running, while the stream owes nothing (no fairness on the
\* environment)
LiveNext == Handler(1) \/ Environment(1)

LiveSpec == Init /\ [][LiveNext]_vars /\ WF_vars(Handler(1))


(* ------------------------ reading a response --------------------------- *)

IsBody(tok) == tok.k = "body"
IsEnd(tok) == tok.k = "end"
IsStatus(tok) == tok.k = "status"
IsContentType(tok) == tok.k = "header" /\ tok.name = "Content-Type"
IsAudio(chunk) == chunk.type = "audio"

Bodies(w) == SelectSeq(w, IsBody)

\* the values of header n in w
HeaderValues(w, n) ==
    LET Named(tok) == tok.k = "header" /\ tok.name = n
        hs == SelectSeq(w, Named)
    IN [i \in 1..Len(hs) |-> hs[i].value]

\* the concatenation of the data of a sequence of chunks
RECURSIVE Flatten(_)
Flatten(cs) == IF cs = <<>> THEN <<>> ELSE Head(cs).data \o Flatten(Tail(cs))

\* the audio a stream has delivered: the data of its audio chunks, in order
AudioOf(cs) == Flatten(SelectSeq(cs, IsAudio))

Cors == Header("Access-Control-Allow-Origin", "*")
JsonType == Header("Content-Type", "application/json")

\* the JSON error response, complete
ErrorResponse(msg) ==
    <<Status("200"), Cors, JsonType, EndHeaders,
      TextBody("{\"error\": \"" \o msg \o "\"}")>>

\* requests whose body is a JSON object with no "text" key, or with "text": ""
EmptyTextRequest(req) ==
    /\ req.content_length = "ok" /\ req.readable /\ req.utf8
    /\ req.doc.valid /\ req.doc.value.t = "object"
    /\ \/ "text" \notin req.doc.value.keys
       \/ req.doc.value.text = JStr("")

\* requests that cannot be read or parsed into a JSON object
MalformedRequest(req) ==
    \/ req.content_length \in {"absent", "bad"}
    \/ ~req.readable
    \/ ~req.utf8
    \/ ~req.doc.valid
    \/ req.doc.value.t # "object"

(* ------------------------------ claims --------------------------------- *)

\* C1: a POST whose JSON object has "text": "" or no "text" key never opens a
\* stream (the engine is not called at any point of the request), and when the
\* client takes every write the body of the response is exactly
\* {"error": "No text provided"}.
C1_EmptyTextRejected ==
    \A r \in Reqs :
        (method[r] = "POST" /\ EmptyTextRequest(request[r])) =>
            /\ calls[r] = 0 /\ stream[r] = "none"
            /\ pc[r] \notin {"synth", "await", "audio_headers", "audio_body"}
            /\ (Done(r) /\ ~wfailed[r]) =>
                   /\ pc[r] = "returned"
                   /\ Bodies(wfile[r]) = <<TextBody(NoTextProvided)>>

C1_Witness ==
    /\ request[1] = WellFormed([valid |-> TRUE, value |-> JObject({}, JNull)])
    /\ request[2] = WellFormed([valid |-> TRUE, value |-> JObject({"text"}, JStr(""))])
    /\ \A r \in Reqs : pc[r] = "returned" /\ ~wfailed[r] /\ Len(wfile[r]) = 5

\* C2: at every point of the consumption of a stream, and at its exhaustion,
\* the audio buffer is the concatenation, in arrival order, of the data of the
\* audio chunks consumed so far; chunks of another type add nothing.
C2_BufferIsAudioConsumed ==
    \A r \in Reqs : audio_data[r] = AudioOf(consumed[r])

C2_Witness ==
    \E r \in Reqs :
        /\ stream[r] = "exhausted"
        /\ consumed[r] = <<AudioChunk(<<2, 3>>), MetaChunk, AudioChunk(<<1>>)>>
        /\ audio_data[r] = <<2, 3, 1>>

\* C3: an exception raised while reading or parsing the request, or by the
\* stream, is caught: when the client takes every write the handler returns
\* normally having sent status 200, Content-Type: application/json and the
\* body {"error": "<str(e)>"}; the engine is called at most once per request.
C3_ExceptionBecomesJsonError ==
    \A r \in Reqs :
        /\ calls[r] <= 1
        /\ (method[r] = "POST" /\ pc[r] # "post" /\ MalformedRequest(request[r])) =>
               exc[r].origin \in {"read", "parse"} /\ calls[r] = 0
        /\ stream[r] = "failed" => exc[r].origin = "synth" /\ calls[r] = 1
        /\ (exc[r].origin \in {"read", "parse", "synth"} /\ Done(r) /\ ~wfailed[r]) =>
               /\ pc[r] = "returned"
               /\ exc[r].msg # ""
               /\ wfile[r] = ErrorResponse(exc[r].msg)

C3_Witness ==
    /\ stream[1] = "failed" /\ Len(consumed[1]) >= 1
    /\ pc[1] = "returned" /\ ~wfailed[1]
    /\ request[2] = WellFormed(NoDoc)
    /\ pc[2] = "returned" /\ ~wfailed[2]
    /\ wfile[2] = ErrorResponse("Expecting value: line 1 column 1 (char 0)")

\* C4: every response carries Access-Control-Allow-Origin: * among its
\* headers: whatever reaches the client starts with the status line, and the
\* header precedes the first blank line.
C4_CorsOnEveryResponse ==
    \A r \in Reqs :
        wfile[r] # <<>> =>
            /\ wfile[r][1] = Status("200")
            /\ \E i \in 1..Len(wfile[r]) :
                   /\ wfile[r][i] = Cors
                   /\ \A j \in 1..i : ~IsEnd(wfile[r][j])

C4_Witness ==
    /\ method[1] = "POST" /\ pc[1] = "returned" /\ stream[1] = "exhausted"
    /\ ~wfailed[1] /\ Len(audio_data[1]) > 0
    /\ method[2] = "OPTIONS" /\ pc[2] = "returned"

\* C5: a successful response (the stream ended without an exception and every
\* write was taken) has Content-Type: audio/mpeg and a non-empty body whose
\* length is the value of Content-Length, for every chunk sequence.
C5_AudioResponseNonEmpty ==
    \A r \in Reqs :
        (pc[r] = "returned" /\ stream[r] = "exhausted" /\ ~wfailed[r]) =>
            /\ HeaderValues(wfile[r], "Content-Type") = <<"audio/mpeg">>
            /\ Len(Bodies(wfile[r])) = 1
            /\ Len(Bodies(wfile[r])[1].data) > 0
            /\ HeaderValues(wfile[r], "Content-Length")
                   = <<Str(Len(Bodies(wfile[r])[1].data))>>

\* C6: nothing is sent while the request is read and the stream consumed; no
\* audio byte reaches the client before the stream is exhausted, the audio
\* that does is the whole audio of the stream, and a stream that failed
\* leaves no audio byte in the response.
C6_NoPartialDelivery ==
    \A r \in Reqs :
        /\ (pc[r] \in {"post", "synth", "await"} \/ stream[r] = "open") => wfile[r] = <<>>
        /\ \A i \in 1..Len(wfile[r]) :
               (IsBody(wfile[r][i]) /\ wfile[r][i].name = "bytes") =>
                   /\ stream[r] = "exhausted"
                   /\ wfile[r][i].data = AudioOf(consumed[r])
        /\ stream[r] = "failed" =>
               \A i \in 1..Len(wfile[r]) : wfile[r][i].data = <<>>

C6_Witness ==
    \E r \in Reqs :
        /\ stream[r] = "failed"
        /\ consumed[r] = <<AudioChunk(<<1>>), AudioChunk(<<2, 3>>)>>
        /\ pc[r] = "returned"
        /\ Len(wfile[r]) = 5

Completed(r) ==
    /\ Done(r)
    /\ ~wfailed[r] => (pc[r] = "returned" /\ Len(Bodies(wfile[r])) = 1)

\* the handler waits for the stream, which has delivered nothing new
Waiting(r) == pc[r] = "await" /\ pending[r] = NoEvent

\* C8: with the handler's own steps fair, a POST request runs until its
\* response is complete or it waits for the stream, and once the stream has
\* ended or raised the response is completed; a handler that waits for a stream
\* that delivers nothing stays where it is (there is no timeout) with nothing
\* sent to the client.
C8_TerminatesWhenStreamDoes ==
    /\ \A r \in Reqs : (method[r] = "POST") ~> (Completed(r) \/ Waiting(r))
    /\ \A r \in Reqs :
           (pc[r] = "await" /\ pending[r].ev \in {"end", "error"}) ~> Completed(r)
    /\ [][\A r \in Reqs : Waiting(r) => pc'[r] = "await"]_vars
    /\ [](\A r \in Reqs : pc[r] = "await" => ~Done(r) /\ wfile[r] = <<>>)

C8_Witness ==
    /\ pc[1] = "returned" /\ stream[1] = "exhausted" /\ ~wfailed[1]
    /\ Len(consumed[1]) = 2
    /\ Len(Bodies(wfile[1])) = 1

\* the audio response, complete
AudioResponse(b) ==
    <<Status("200"), Cors, Header("Content-Type", "audio/mpeg"),
      Header("Content-Length", Str(Len(b))), EndHeaders, BytesBody(b)>>

\* C9: requests in flight together are independent: no step changes what
\* belongs to two requests; every buffer holds the audio of its own stream in
\* its own order and every audio response carries exactly that; every request
\* that reached the engine made one call of its own (nothing is cached), also
\* when another request has the same text, failed or was rejected.
C9_RequestsIndependent ==
    /\ [][\A r \in Reqs : \A q \in Reqs \ {r} :
              View(r)' # View(r) => View(q)' = View(q)]_vars
    /\ [](\A r \in Reqs :
              /\ audio_data[r] = AudioOf(consumed[r])
              /\ (stream[r] = "none") = (calls[r] = 0)
              /\ (stream[r] # "none") = (calls[r] = 1)
              /\ (pc[r] = "returned" /\ stream[r] = "exhausted" /\ ~wfailed[r]) =>
                     wfile[r] = AudioResponse(AudioOf(consumed[r])))

C9_Witness ==
    /\ request[1] = request[2]
    /\ \A r \in Reqs : pc[r] = "returned" /\ stream[r] = "exhausted" /\ ~wfailed[r]
    /\ consumed[1] = <<AudioChunk(<<1>>)>>
    /\ consumed[2] = <<AudioChunk(<<2, 3>>), AudioChunk(<<1>>)>>
    /\ wfile[1] = AudioResponse(<<1>>)
    /\ wfile[2] = AudioResponse(<<2, 3, 1>>)

\* how many tokens of w satisfy the test
StatusLines(w) == Len(SelectSeq(w, IsStatus))
ContentTypes(w) == Len(SelectSeq(w, IsContentType))
HeaderEnds(w) == Len(SelectSeq(w, IsEnd))

\* C10: on every path of a POST request the response is well-formed: at most
\* one status line, one Content-Type header, one end of the header block and
\* one body are ever written, and a handler that returns has written exactly
\* one of each.
C10_ResponseWellFormed ==
    \A r \in Reqs :
        method[r] = "POST" =>
            /\ StatusLines(wfile[r]) <= 1
            /\ ContentTypes(wfile[r]) <= 1
            /\ HeaderEnds(wfile[r]) <= 1
            /\ Len(Bodies(wfile[r])) <= 1
            /\ pc[r] = "returned" =>
                   /\ StatusLines(wfile[r]) = 1
                   /\ ContentTypes(wfile[r]) = 1
                   /\ HeaderEnds(wfile[r]) = 1
                   /\ Len(Bodies(wfile[r])) = 1

=============================================================================
